---------------------------- MODULE Spec2Model ----------------------------
(***************************************************************************)
(* gin-contrib/slog: the request-logging middleware SetLogger, its         *)
(* functional options, the policy functions shouldSkipLogging and          *)
(* getLogLevel, the accessor Get and the parser ParseLevel.                *)
(*                                                                         *)
(* Strings whose content the code inspects (paths, queries, header names)  *)
(* are sequences of one-character strings, so that concatenation,          *)
(* lower-casing and regular-expression matching are computed.  Strings the *)
(* code only compares or passes on (levels' names, methods, messages) are  *)
(* TLA+ strings.                                                           *)
(***************************************************************************)
EXTENDS Integers, Sequences, FiniteSets, TLC

\* ------------------------------------------------------------------ bounds
\* Options one SetLogger call is given at most.
MaxOpts == 2
\* No request arrives once the clock, counted from when the server was last
\* idle, shows this.
MaxClock == 2

\* ------------------------------------------------------- program constants
LevelDebug == -4
LevelInfo == 0
LevelWarn == 4
LevelError == 8
StatusBadRequest == 400
StatusInternalServerError == 500
\* What c.Writer.Status() and c.Writer.Size() read before a handler has written.
NoWritten == [status |-> 200, size |-> 0 - 1]

loggerKey == "_gin-contrib/logger_"


\* ------------------------------------------------------------------ strings
EmptyMap == [x \in {} |-> 0]

UpperChars ==
  <<"A","B","C","D","E","F","G","H","I","J","K","L","M",
    "N","O","P","Q","R","S","T","U","V","W","X","Y","Z">>

LowerChars ==
  <<"a","b","c","d","e","f","g","h","i","j","k","l","m",
    "n","o","p","q","r","s","t","u","v","w","x","y","z">>

\* The lower-case letter of each upper-case letter.
LowerOf ==
  [ch \in {UpperChars[i] : i \in 1..Len(UpperChars)} |->
     LowerChars[CHOOSE i \in 1..Len(UpperChars) : UpperChars[i] = ch]]

\* strings.ToLower, one character.
ToLowerChar(ch) == IF ch \in DOMAIN LowerOf THEN LowerOf[ch] ELSE ch

\* strings.ToLower.
ToLower(s) == [i \in 1..Len(s) |-> ToLowerChar(s[i])]

\* A compiled regular expression of the shape  ^? literal $?  .
Regexp(start, lit, end) == [nil |-> FALSE, start |-> start, lit |-> lit, end |-> end]

\* (*regexp.Regexp)(nil)
NilRegexp == [nil |-> TRUE, start |-> FALSE, lit |-> <<>>, end |-> FALSE]

\* (*regexp.Regexp).MatchString: an unanchored search for the literal, held to
\* the beginning and/or the end of s by ^ and $.
MatchString(reg, s) ==
  \E i \in 1..(Len(s) + 1) :
    /\ i + Len(reg.lit) - 1 <= Len(s)
    /\ SubSeq(s, i, i + Len(reg.lit) - 1) = reg.lit
    /\ reg.start => i = 1
    /\ reg.end => i + Len(reg.lit) - 1 = Len(s)

\* ------------------------------------------------------------ input alphabet
PathA == <<"/","a">>
PathB == <<"/","b">>
QueryX == <<"x">>
PathAQueryX == <<"/","a","?","x">>

Paths == {PathA, PathB}
RawQueries == {<<>>, QueryX}
Methods == {"GET", "OPTIONS"}

\* a$ : matches /a, not /a?x.      ^/b : matches /b and /b?x.
ReEndsA == Regexp(FALSE, <<"a">>, TRUE)
RePrefixB == Regexp(TRUE, PathB, FALSE)

HdrAuthorization == <<"A","u","t","h","o","r","i","z","a","t","i","o","n">>
HdrCookie == <<"C","o","o","k","i","e">>
HdrXCustom == <<"X","-","C","u","s","t","o","m">>
HdrXCUSTOM == <<"X","-","C","U","S","T","O","M">>
HdrUserAgent == <<"U","s","e","r","-","A","g","e","n","t">>

\* http.Header values a request arrives with.
RequestHeaders ==
  { EmptyMap,
    (HdrAuthorization :> <<"secret">>) @@ (HdrXCustom :> <<"value">>)
      @@ (HdrUserAgent :> <<"curl">>) @@ (HdrCookie :> <<"c1", "c2">>) }

\* The headers of the requests sent to a server that handles n at a time: the
\* header-less request only, where requests overlap.
HeadersOf(n) == IF n = 1 THEN RequestHeaders ELSE {EmptyMap}

\* What the downstream chain leaves in the response writer and c.Errors, and
\* how it ended: every handler "returned", one of them "aborted" the chain
\* (c.AbortWithStatus), or the client went away and the handler gave up
\* ("cancelled", c.Error(ctx.Err()) and a 499).
Response(status, size, errors, how) ==
  [status |-> status, size |-> size, errors |-> errors, how |-> how]

Responses ==
  { Response(200, 2, <<>>, "returned"), Response(399, NoWritten.size, <<>>, "returned"),
    Response(400, 2, <<>>, "aborted"), Response(499, NoWritten.size, <<"e1">>, "cancelled"),
    Response(500, 2, <<>>, "returned"), Response(599, 2, <<>>, "aborted") }

\* The response writer and c.Errors before any handler has run.
NoResponse == Response(NoWritten.status, NoWritten.size, <<>>, "")

\* ------------------------------------------------------------------- loggers
\* slog.New(handler): a logger is its handler (writer and minimum level) and
\* the attributes bound to it.
NewLogger(output, level) == [w |-> output, min |-> level, attrs |-> <<>>]

\* (*slog.Logger)(nil)
NilLogger == [w |-> "nil", min |-> 0, attrs |-> <<>>]

\* io.Writer(nil)
NilWriter == "io.Writer(nil)"

\* (*slog.Logger).With
LoggerWith(lg, key, val) == [lg EXCEPT !.attrs = Append(@, <<key, val>>)]

\* ------------------------------------------------------------- configuration
\* Values of the function-typed options.  "nil" is Go's nil function.
\*   Fn       WithPath      : func(c, l) { return l.With("path", c.Request.URL.Path) }
\*            ReturnsNil    : func(c, l) { return nil }
\*   EventFn  AddExtra      : func(c, rec) { rec.Add("extra", method); return rec }
\*            ReturnsNil    : func(c, rec) { return nil }
\*   Skipper  IsOptions     : func(c) { return c.Request.Method == "OPTIONS" }
\*            IsError       : func(c) { return c.Writer.Status() >= 400 }
\* A nil map reads as the empty map and a nil slice as the empty slice.
Fns == {"nil", "WithPath", "ReturnsNil"}
EventFns == {"nil", "AddExtra", "ReturnsNil"}
Skippers == {"nil", "IsOptions", "IsError"}
Writers == {"Stdout", NilWriter}
Messages == {"Handled request"}
SkipPathLists == {<<>>, <<PathAQueryX, PathB>>}
RegexpLists == {<<RePrefixB, ReEndsA>>, <<ReEndsA, NilRegexp>>}
PathLevelMaps == {EmptyMap, (PathA :> LevelDebug) @@ (PathB :> LevelError)}
StatusLevelMaps == {EmptyMap, (200 :> LevelError) @@ (400 :> LevelDebug) @@ (599 :> LevelInfo)}
ClientErrorLevels == {LevelError}
ServerErrorLevels == {LevelWarn}
HiddenHeaderLists == {<<>>, <<HdrXCUSTOM, HdrCookie>>}
LevelStrings ==
  {"debug", "info", "warn", "warning", "error", "DEBUG", "Warn", "", "trace", " info"}

\* The hidden request headers when WithHiddenRequestHeaders is not given.
defaultHiddenRequestHeaders ==
  { <<"a","u","t","h","o","r","i","z","a","t","i","o","n">>,
    <<"c","o","o","k","i","e">>,
    <<"s","e","t","-","c","o","o","k","i","e">>,
    <<"x","-","a","u","t","h","-","t","o","k","e","n">>,
    <<"x","-","c","s","r","f","-","t","o","k","e","n">>,
    <<"x","-","x","s","r","f","-","t","o","k","e","n">> }

\* cfg := &config{...} of SetLogger; every other field is Go's zero value.
defaultConfig ==
  [ logger |-> "nil", context |-> "nil", utc |-> FALSE,
    skipPath |-> <<>>, skipPathRegexps |-> <<>>, skip |-> "nil",
    output |-> "Stderr",
    defaultLevel |-> LevelInfo, clientErrorLevel |-> LevelWarn,
    serverErrorLevel |-> LevelError,
    pathLevels |-> EmptyMap, message |-> "Request",
    specificLevelByStatusCode |-> EmptyMap,
    withRequestHeader |-> FALSE,
    hiddenRequestHeaders |-> defaultHiddenRequestHeaders ]

WithLogger(fn, c) == [c EXCEPT !.logger = fn]

WithSkipPathRegexps(regs, c) ==
  IF Len(regs) = 0 THEN c ELSE [c EXCEPT !.skipPathRegexps = @ \o regs]

WithUTC(s, c) == [c EXCEPT !.utc = s]

WithSkipPath(s, c) == [c EXCEPT !.skipPath = s]

WithPathLevel(m, c) == [c EXCEPT !.pathLevels = m]

WithWriter(s, c) == [c EXCEPT !.output = s]

WithDefaultLevel(lvl, c) == [c EXCEPT !.defaultLevel = lvl]

WithClientErrorLevel(lvl, c) == [c EXCEPT !.clientErrorLevel = lvl]

WithServerErrorLevel(lvl, c) == [c EXCEPT !.serverErrorLevel = lvl]

WithSkipper(s, c) == [c EXCEPT !.skip = s]

WithContext(fn, c) == [c EXCEPT !.context = fn]

WithMessage(message, c) == [c EXCEPT !.message = message]

WithSpecificLogLevelByStatusCode(statusCodes, c) ==
  [c EXCEPT !.specificLevelByStatusCode = statusCodes]

WithRequestHeader(enabled, c) == [c EXCEPT !.withRequestHeader = enabled]

\* WithHiddenRequestHeaders storing the names as given.
WithHiddenRequestHeaders_AsGiven(headers, c) ==
  [c EXCEPT !.hiddenRequestHeaders = {headers[i] : i \in 1..Len(headers)}]

WithHiddenRequestHeaders(headers, c) ==
  [c EXCEPT !.hiddenRequestHeaders = {ToLower(headers[i]) : i \in 1..Len(headers)}]

\* ------------------------------------------------------------------ ParseLevel
\* A Go error: nil is <<>>, fmt.Errorf("unknown slog level: %s", s) its parts.
NilError == <<>>

ParseResult(level, err) == [level |-> level, err |-> err]

\* ParseLevel without the "warning" spelling.
ParseLevel_NoWarning(levelStr) ==
  CASE levelStr = "debug" -> ParseResult(LevelDebug, NilError)
    [] levelStr = "info" -> ParseResult(LevelInfo, NilError)
    [] levelStr = "warn" -> ParseResult(LevelWarn, NilError)
    [] levelStr = "error" -> ParseResult(LevelError, NilError)
    [] OTHER -> ParseResult(LevelInfo, <<"unknown slog level: ", levelStr>>)

ParseLevel(levelStr) ==
  CASE levelStr = "debug" -> ParseResult(LevelDebug, NilError)
    [] levelStr = "info" -> ParseResult(LevelInfo, NilError)
    [] levelStr \in {"warn", "warning"} -> ParseResult(LevelWarn, NilError)
    [] levelStr = "error" -> ParseResult(LevelError, NilError)
    [] OTHER -> ParseResult(LevelInfo, <<"unknown slog level: ", levelStr>>)

\* ------------------------------------------------------------------- state
VARIABLES
  phase,    \* "config": SetLogger's options are being chosen; "serve": it returned
  nopts,    \* options given to SetLogger so far
  parsed,   \* the result of a ParseLevel call not yet passed on to an option
  cfg,      \* SetLogger's cfg
  skip,     \* SetLogger's skip set, built from cfg.skipPath
  l,        \* SetLogger's base logger
  conc,     \* requests the server handles at a time
  ctx,      \* the gin.Context of each request slot, with the middleware's locals
  buffer,   \* the Handle calls the backend has seen (what was to be written,
            \* and the write's error) for the requests still in flight
  clock     \* time.Now(), counted from when the server was last idle; the
            \* zero time is 0

vars == <<phase, nopts, parsed, cfg, skip, l, conc, ctx, buffer, clock>>

Slots == {1, 2}

NoParse == [called |-> FALSE, str |-> "", level |-> LevelInfo, err |-> NilError]

NoGet == [called |-> FALSE, panic |-> FALSE, logger |-> NilLogger]

\* A context of gin's pool, reset; the fields after errors are the locals of
\* SetLogger's handler (rl, start, path, track) and what the downstream
\* handler observed (got: its Get(c); ranAt: the time it ran).  resp is what
\* the chain did, panic what panicked in the request's goroutine ("" nothing),
\* skipperCalled whether cfg.skip was called for the request.
NewContext ==
  [ pc |-> "idle", slot |-> 0, mw |-> FALSE,
    method |-> "", path |-> <<>>, rawQuery |-> <<>>, header |-> EmptyMap,
    keys |-> EmptyMap,
    status |-> NoWritten.status, size |-> NoWritten.size, errors |-> <<>>,
    rl |-> NilLogger, start |-> 0, fullPath |-> <<>>, track |-> FALSE,
    got |-> NoGet, ranAt |-> 0,
    resp |-> NoResponse, panic |-> "", skipperCalled |-> FALSE ]

\* ------------------------------------------------------------ the callbacks
\* cfg.logger(c, l)
CallFn(fn, c, lg) ==
  CASE fn = "WithPath" -> LoggerWith(lg, "path", c.path)
    [] fn = "ReturnsNil" -> NilLogger
    [] OTHER -> lg

\* cfg.skip(c)
CallSkipper(fn, c) ==
  CASE fn = "IsOptions" -> c.method = "OPTIONS"
    [] fn = "IsError" -> c.status >= 400
    [] OTHER -> FALSE

\* cfg.context(c, recPtr); a nil *slog.Record is the record marked nil.
CallEventFn(fn, c, rec) ==
  CASE fn = "AddExtra" -> [rec EXCEPT !.attrs = @ @@ ("extra" :> c.method)]
    [] fn = "ReturnsNil" -> [rec EXCEPT !.nil = TRUE, !.attrs = EmptyMap]
    [] OTHER -> rec

\* ------------------------------------------------------------ policy resolver
\* skip: what shouldSkipLogging returns; called: whether it called cfg.skip;
\* panic: what panicked in it ("" nothing).  The loop over the patterns ends
\* at the first one that matches, or that is nil and cannot be matched with.
shouldSkipLogging(path, skipSet, config, c) ==
  LET ok == path \in skipSet
      called == ~ok /\ config.skip # "nil"
      regs == config.skipPathRegexps
      stops == {i \in 1..Len(regs) : regs[i].nil \/ MatchString(regs[i], path)}
      first == CHOOSE i \in stops : \A j \in stops : i <= j
  IN  IF ok \/ (called /\ CallSkipper(config.skip, c))
      THEN [skip |-> TRUE, called |-> called, panic |-> ""]
      ELSE IF stops = {}
      THEN [skip |-> FALSE, called |-> called, panic |-> ""]
      ELSE IF regs[first].nil
      THEN [skip |-> FALSE, called |-> called, panic |-> "nil regexp"]
      ELSE [skip |-> TRUE, called |-> called, panic |-> ""]

\* getLogLevel asking the status bands before the specific status codes.
getLogLevel_BandsFirst(config, c, path) ==
  IF c.status >= StatusBadRequest /\ c.status < StatusInternalServerError
  THEN config.clientErrorLevel
  ELSE IF c.status >= StatusInternalServerError
  THEN config.serverErrorLevel
  ELSE IF c.status \in DOMAIN config.specificLevelByStatusCode
  THEN config.specificLevelByStatusCode[c.status]
  ELSE IF path \in DOMAIN config.pathLevels
  THEN config.pathLevels[path]
  ELSE config.defaultLevel

\* getLogLevel asking the path levels before the status bands.
getLogLevel_PathFirst(config, c, path) ==
  IF c.status \in DOMAIN config.specificLevelByStatusCode
  THEN config.specificLevelByStatusCode[c.status]
  ELSE IF path \in DOMAIN config.pathLevels
  THEN config.pathLevels[path]
  ELSE IF c.status >= StatusBadRequest /\ c.status < StatusInternalServerError
  THEN config.clientErrorLevel
  ELSE IF c.status >= StatusInternalServerError
  THEN config.serverErrorLevel
  ELSE config.defaultLevel

getLogLevel(config, c, path) ==
  IF c.status \in DOMAIN config.specificLevelByStatusCode
  THEN config.specificLevelByStatusCode[c.status]
  ELSE IF c.status >= StatusBadRequest /\ c.status < StatusInternalServerError
  THEN config.clientErrorLevel
  ELSE IF c.status >= StatusInternalServerError
  THEN config.serverErrorLevel
  ELSE IF path \in DOMAIN config.pathLevels
  THEN config.pathLevels[path]
  ELSE config.defaultLevel

\* The headers field: every request header whose lower-cased name is not hidden.
filterHeaders(header, hidden) ==
  [k \in {n \in DOMAIN header : ToLower(n) \notin hidden} |-> header[k]]

\* Get built on c.Get and an unchecked assertion: nil when the key was never set.
Get_ZeroValue(c) ==
  IF loggerKey \in DOMAIN c.keys
  THEN [called |-> TRUE, panic |-> FALSE, logger |-> c.keys[loggerKey]]
  ELSE [called |-> TRUE, panic |-> FALSE, logger |-> NilLogger]

\* c.MustGet(loggerKey).(*slog.Logger): panics when the key was never set.
Get(c) ==
  IF loggerKey \in DOMAIN c.keys
  THEN [called |-> TRUE, panic |-> FALSE, logger |-> c.keys[loggerKey]]
  ELSE [called |-> TRUE, panic |-> TRUE, logger |-> NilLogger]

\* c.Request.UserAgent()
UserAgent(c) ==
  IF HdrUserAgent \in DOMAIN c.header THEN c.header[HdrUserAgent][1] ELSE ""

\* c.ClientIP()
ClientIP(c) == "192.0.2.1"

\* What the writer's Write may return.
WriteErrors == {"nil", "EPIPE"}

\* A handler that drops the records below its minimum level, as rl.Log would.
Handle_IfEnabled(lg, by, rec, werr) ==
  IF lg.w = NilWriter
  THEN [panic |-> "nil writer", out |-> << >>]
  ELSE IF rec.level >= lg.min
  THEN [panic |-> "",
        out |-> << [by |-> by, w |-> lg.w, attrs |-> lg.attrs, rec |-> rec, err |-> werr] >>]
  ELSE [panic |-> "", out |-> << >>]

\* (slog.Handler).Handle of the text handler: it formats the record whatever
\* its level (only the Logger's own methods ask Enabled first) and hands it to
\* the writer in one Write, whose error (werr) it returns; Write on a nil
\* io.Writer panics.  out is the call as the backend saw it, kept with the
\* context whose request it was made for (by).
Handle(lg, by, rec, werr) ==
  IF lg.w = NilWriter
  THEN [panic |-> "nil writer", out |-> << >>]
  ELSE [panic |-> "",
        out |-> << [by |-> by, w |-> lg.w, attrs |-> lg.attrs, rec |-> rec, err |-> werr] >>]

\* (*slog.Logger).Info in a route's handler: what panics in it ("" nothing).
LoggerInfo(lg) ==
  IF lg = NilLogger THEN "nil logger"
  ELSE IF LevelInfo >= lg.min /\ lg.w = NilWriter THEN "nil writer"
  ELSE ""

\* --------------------------------------------------------------- SetLogger
\* slog.NewRecord(end, level, msg, 0) and the record.Add calls.
NewRecord(end, level, msg) ==
  [nil |-> FALSE, time |-> end, level |-> level, msg |-> msg, attrs |-> EmptyMap]

RecordAdd(rec, key, val) == [rec EXCEPT !.attrs = @ @@ (key :> val)]

\* path := c.Request.URL.Path; if raw != "" { path += "?" + raw }
FullPath(c) == IF c.rawQuery # <<>> THEN c.path \o <<"?">> \o c.rawQuery ELSE c.path

\* BuildRecord with the URL path and the raw query in fields of their own.
BuildRecord_SeparateQuery(c, now) ==
  LET end == [t |-> now, utc |-> cfg.utc]
      latency == end.t - c.start
      msg == [text |-> cfg.message,
              errors |-> IF Len(c.errors) > 0 THEN c.errors ELSE <<>>]
      level == getLogLevel(cfg, c, c.fullPath)
      r0 == NewRecord(end, level, msg)
      r1 == RecordAdd(r0, "status", c.status)
      r2 == RecordAdd(r1, "method", c.method)
      r3 == RecordAdd(RecordAdd(r2, "path", c.path), "query", c.rawQuery)
      r4 == RecordAdd(r3, "ip", ClientIP(c))
      r5 == RecordAdd(r4, "latency", latency)
      r6 == RecordAdd(r5, "user_agent", UserAgent(c))
      r7 == RecordAdd(r6, "body_size", c.size)
      r8 == IF cfg.withRequestHeader
            THEN RecordAdd(r7, "headers", filterHeaders(c.header, cfg.hiddenRequestHeaders))
            ELSE r7
  IN  IF cfg.context # "nil" THEN CallEventFn(cfg.context, c, r8) ELSE r8

\* The record of a tracked request, as built after c.Next() has returned.
BuildRecord(c, now) ==
  LET end == [t |-> now, utc |-> cfg.utc]
      latency == end.t - c.start
      msg == [text |-> cfg.message,
              errors |-> IF Len(c.errors) > 0 THEN c.errors ELSE <<>>]
      level == getLogLevel(cfg, c, c.fullPath)
      r0 == NewRecord(end, level, msg)
      r1 == RecordAdd(r0, "status", c.status)
      r2 == RecordAdd(r1, "method", c.method)
      r3 == RecordAdd(r2, "path", c.fullPath)
      r4 == RecordAdd(r3, "ip", ClientIP(c))
      r5 == RecordAdd(r4, "latency", latency)
      r6 == RecordAdd(r5, "user_agent", UserAgent(c))
      r7 == RecordAdd(r6, "body_size", c.size)
      r8 == IF cfg.withRequestHeader
            THEN RecordAdd(r7, "headers", filterHeaders(c.header, cfg.hiddenRequestHeaders))
            ELSE r7
  IN  IF cfg.context # "nil" THEN CallEventFn(cfg.context, c, r8) ELSE r8

\* SetLoggerLeave deciding after c.Next() whether the request is skipped.
SetLoggerLeave_SkipAfterNext(c, now, werr) ==
  IF shouldSkipLogging(c.fullPath, skip, cfg, c).skip
  THEN [c |-> [c EXCEPT !.pc = "done"], out |-> <<>>]
  ELSE LET rec == BuildRecord(c, now)
           h == Handle(c.rl, c.slot, rec, werr)
           panic == IF c.rl = NilLogger THEN "nil logger"
                    ELSE IF rec.nil THEN "nil record"
                    ELSE h.panic
       IN  IF panic # ""
           THEN [c |-> [c EXCEPT !.pc = "panicked", !.panic = panic], out |-> <<>>]
           ELSE [c |-> [c EXCEPT !.pc = "done"], out |-> h.out]

\* SetLoggerLeave answering a failed write with c.AbortWithError(500, err).
SetLoggerLeave_AbortOnError(c, now, werr) ==
  IF ~c.track
  THEN [c |-> [c EXCEPT !.pc = "done"], out |-> <<>>]
  ELSE LET rec == BuildRecord(c, now)
           h == Handle(c.rl, c.slot, rec, werr)
           panic == IF c.rl = NilLogger THEN "nil logger"
                    ELSE IF rec.nil THEN "nil record"
                    ELSE h.panic
       IN  IF panic # ""
           THEN [c |-> [c EXCEPT !.pc = "panicked", !.panic = panic], out |-> <<>>]
           ELSE IF werr # "nil"
           THEN [c |-> [c EXCEPT !.pc = "done", !.status = StatusInternalServerError,
                                 !.errors = Append(@, werr)],
                 out |-> h.out]
           ELSE [c |-> [c EXCEPT !.pc = "done"], out |-> h.out]

\* The handler SetLogger returns, from the return of c.Next() on: the record
\* of a tracked request is built and handed to the handler of the request's
\* logger, whose error is dropped.
SetLoggerLeave(c, now, werr) ==
  IF ~c.track
  THEN [c |-> [c EXCEPT !.pc = "done"], out |-> <<>>]
  ELSE LET rec == BuildRecord(c, now)
           h == Handle(c.rl, c.slot, rec, werr)
           panic == IF c.rl = NilLogger THEN "nil logger"
                    ELSE IF rec.nil THEN "nil record"
                    ELSE h.panic
       IN  IF panic # ""
           THEN [c |-> [c EXCEPT !.pc = "panicked", !.panic = panic], out |-> <<>>]
           ELSE [c |-> [c EXCEPT !.pc = "done"], out |-> h.out]

\* SetLogger's handler with the logging block placed before c.Next().
SetLoggerEnter_LogBeforeNext(c, now) ==
  LET rl == IF cfg.logger # "nil" THEN CallFn(cfg.logger, c, l) ELSE l
      path == FullPath(c)
      d == shouldSkipLogging(path, skip, cfg, c)
      c2 == [c EXCEPT !.rl = rl, !.start = now, !.fullPath = path,
                      !.skipperCalled = d.called, !.track = ~d.skip,
                      !.keys = (loggerKey :> rl) @@ @]
      r == SetLoggerLeave(c2, now, "nil")
  IN  IF d.panic # ""
      THEN [c |-> [c2 EXCEPT !.keys = c.keys, !.pc = "panicked", !.panic = d.panic],
            out |-> <<>>]
      ELSE [c |-> [r.c EXCEPT !.pc = IF @ = "done" THEN "next" ELSE @], out |-> r.out]

\* SetLogger's handler storing the logger only for the requests it will log.
SetLoggerEnter_SetWhenTracked(c, now) ==
  LET rl == IF cfg.logger # "nil" THEN CallFn(cfg.logger, c, l) ELSE l
      path == FullPath(c)
      d == shouldSkipLogging(path, skip, cfg, c)
      c2 == [c EXCEPT !.rl = rl, !.start = now, !.fullPath = path,
                      !.skipperCalled = d.called, !.track = ~d.skip]
  IN  IF d.panic # ""
      THEN [c |-> [c2 EXCEPT !.pc = "panicked", !.panic = d.panic], out |-> <<>>]
      ELSE [c |-> [c2 EXCEPT !.keys = IF ~d.skip THEN (loggerKey :> rl) @@ @ ELSE @,
                             !.pc = "next"],
            out |-> <<>>]

\* SetLogger's handler with rl declared outside the handler, shared by the
\* requests in flight: a request may read what another one assigned.
SetLoggerEnter_SharedLogger(c, now) ==
  LET other == ctx[3 - c.slot]
      rl == IF other.pc \in {"next", "handled"} THEN other.rl
            ELSE IF cfg.logger # "nil" THEN CallFn(cfg.logger, c, l) ELSE l
      path == FullPath(c)
      d == shouldSkipLogging(path, skip, cfg, c)
      c2 == [c EXCEPT !.rl = rl, !.start = now, !.fullPath = path,
                      !.skipperCalled = d.called, !.track = ~d.skip]
  IN  IF d.panic # ""
      THEN [c |-> [c2 EXCEPT !.pc = "panicked", !.panic = d.panic], out |-> <<>>]
      ELSE [c |-> [c2 EXCEPT !.keys = (loggerKey :> rl) @@ @, !.pc = "next"],
            out |-> <<>>]

\* The handler SetLogger returns, up to its call of c.Next(): the request's
\* logger, the start time, the path, the skip decision, c.Set.
SetLoggerEnter(c, now) ==
  LET rl == IF cfg.logger # "nil" THEN CallFn(cfg.logger, c, l) ELSE l
      path == FullPath(c)
      d == shouldSkipLogging(path, skip, cfg, c)
      c2 == [c EXCEPT !.rl = rl, !.start = now, !.fullPath = path,
                      !.skipperCalled = d.called, !.track = ~d.skip]
  IN  IF d.panic # ""
      THEN [c |-> [c2 EXCEPT !.pc = "panicked", !.panic = d.panic], out |-> <<>>]
      ELSE [c |-> [c2 EXCEPT !.keys = (loggerKey :> rl) @@ @, !.pc = "next"],
            out |-> <<>>]

\* ------------------------------------------------------------------ actions
Init ==
  /\ phase = "config"
  /\ nopts = 0
  /\ parsed = NoParse
  /\ cfg = defaultConfig
  /\ skip = {}
  /\ l = NilLogger
  /\ conc = 1
  /\ ctx = [s \in Slots |-> [NewContext EXCEPT !.slot = s]]
  /\ buffer = <<>>
  /\ clock = 1

served == <<skip, l, conc, ctx, buffer, clock>>

\* The program parses a level name (from a flag, the environment) ...
CallParseLevel ==
  /\ phase = "config" /\ nopts < MaxOpts /\ ~parsed.called
  /\ \E str \in LevelStrings :
       parsed' = [called |-> TRUE, str |-> str,
                  level |-> ParseLevel(str).level, err |-> ParseLevel(str).err]
  /\ UNCHANGED <<phase, nopts, cfg, served>>

\* o.apply(cfg) for one more option of SetLogger's opts.
Apply(c2) ==
  /\ phase = "config" /\ nopts < MaxOpts
  /\ cfg' = c2
  /\ nopts' = nopts + 1
  /\ UNCHANGED <<phase, served>>

\* ... and passes the level it got (the fallback, if it ignores the error) on.
OptDefaultLevel ==
  /\ parsed.called
  /\ Apply(WithDefaultLevel(parsed.level, cfg))
  /\ parsed' = NoParse

OptLogger == \E fn \in Fns : ~parsed.called /\ Apply(WithLogger(fn, cfg)) /\ UNCHANGED parsed

OptSkipPathRegexps ==
  \E regs \in RegexpLists :
    ~parsed.called /\ Apply(WithSkipPathRegexps(regs, cfg)) /\ UNCHANGED parsed

OptUTC == ~parsed.called /\ Apply(WithUTC(TRUE, cfg)) /\ UNCHANGED parsed

OptSkipPath ==
  \E s \in SkipPathLists : ~parsed.called /\ Apply(WithSkipPath(s, cfg)) /\ UNCHANGED parsed

OptPathLevel ==
  \E m \in PathLevelMaps : ~parsed.called /\ Apply(WithPathLevel(m, cfg)) /\ UNCHANGED parsed

OptWriter == \E w \in Writers : ~parsed.called /\ Apply(WithWriter(w, cfg)) /\ UNCHANGED parsed

OptClientErrorLevel ==
  \E lvl \in ClientErrorLevels :
    ~parsed.called /\ Apply(WithClientErrorLevel(lvl, cfg)) /\ UNCHANGED parsed

OptServerErrorLevel ==
  \E lvl \in ServerErrorLevels :
    ~parsed.called /\ Apply(WithServerErrorLevel(lvl, cfg)) /\ UNCHANGED parsed

OptSkipper ==
  \E fn \in Skippers : ~parsed.called /\ Apply(WithSkipper(fn, cfg)) /\ UNCHANGED parsed

OptContext ==
  \E fn \in EventFns : ~parsed.called /\ Apply(WithContext(fn, cfg)) /\ UNCHANGED parsed

OptMessage ==
  \E m \in Messages : ~parsed.called /\ Apply(WithMessage(m, cfg)) /\ UNCHANGED parsed

OptSpecificLogLevelByStatusCode ==
  \E m \in StatusLevelMaps :
    ~parsed.called /\ Apply(WithSpecificLogLevelByStatusCode(m, cfg)) /\ UNCHANGED parsed

OptRequestHeader ==
  \E b \in BOOLEAN : ~parsed.called /\ Apply(WithRequestHeader(b, cfg)) /\ UNCHANGED parsed

OptHiddenRequestHeaders ==
  \E h \in HiddenHeaderLists :
    ~parsed.called /\ Apply(WithHiddenRequestHeaders(h, cfg)) /\ UNCHANGED parsed

\* The rest of SetLogger once the options are applied: the skip set, the base
\* handler at cfg.defaultLevel, the base logger; the middleware is installed.
Build ==
  /\ phase = "config" /\ ~parsed.called
  /\ skip' = {cfg.skipPath[i] : i \in 1..Len(cfg.skipPath)}
  /\ l' = NewLogger(cfg.output, cfg.defaultLevel)
  /\ phase' = "serve"
  /\ nopts' = 0
  /\ UNCHANGED <<parsed, cfg, conc, ctx, buffer, clock>>

Busy == {s \in Slots : ctx[s].pc # "idle"}

\* A request arrives, on a route behind the middleware (mw) or on one that is
\* not, and gets a context from the pool.
Arrive(s) ==
  /\ phase = "serve"
  /\ ctx[s].pc = "idle" /\ \A t \in Slots : ctx[t].pc = "idle" => s <= t
  /\ Cardinality(Busy) < conc /\ clock < MaxClock
  /\ \/ \E m \in Methods, p \in Paths, q \in RawQueries, h \in HeadersOf(conc) :
          ctx' = [ctx EXCEPT ![s] = [NewContext EXCEPT !.pc = "arrived", !.slot = s,
                      !.mw = TRUE, !.method = m, !.path = p, !.rawQuery = q, !.header = h]]
     \/ \E p \in Paths :
          ctx' = [ctx EXCEPT ![s] = [NewContext EXCEPT !.pc = "arrived", !.slot = s,
                      !.mw = FALSE, !.method = "GET", !.path = p]]
  /\ UNCHANGED <<phase, nopts, parsed, cfg, skip, l, conc, buffer, clock>>

\* The middleware runs up to c.Next().
Enter(s) ==
  /\ ctx[s].pc = "arrived" /\ ctx[s].mw
  /\ LET r == SetLoggerEnter(ctx[s], clock)
     IN  /\ ctx' = [ctx EXCEPT ![s] = r.c]
         /\ buffer' = buffer \o r.out
  /\ UNCHANGED <<phase, nopts, parsed, cfg, skip, l, conc, clock>>

\* The route's handler (c.Next() for a route behind the middleware): it takes
\* the request's logger with Get(c), as the example's handlers do, may log
\* with it, then writes its response or panics.  Nothing recovers a panic
\* between the handler and the middleware.  Time passes.
Handler(s) ==
  /\ \/ ctx[s].pc = "next"
     \/ ctx[s].pc = "arrived" /\ ~ctx[s].mw
  /\ LET c == [ctx[s] EXCEPT !.got = Get(ctx[s]), !.ranAt = clock]
     IN  \/ /\ c.got.panic
            /\ ctx' = [ctx EXCEPT ![s] = [c EXCEPT !.pc = "panicked", !.panic = "Get"]]
         \/ /\ ~c.got.panic /\ LoggerInfo(c.got.logger) # ""
            /\ ctx' = [ctx EXCEPT ![s] = [c EXCEPT !.pc = "panicked",
                                                   !.panic = LoggerInfo(c.got.logger)]]
         \/ /\ ~c.got.panic
            /\ \E r \in Responses :
                 ctx' = [ctx EXCEPT ![s] = [c EXCEPT !.pc = "handled", !.resp = r,
                            !.status = r.status, !.size = r.size, !.errors = r.errors]]
         \/ /\ ~c.got.panic
            /\ ctx' = [ctx EXCEPT ![s] = [c EXCEPT !.pc = "panicked", !.panic = "handler"]]
  /\ clock' = clock + 1
  /\ UNCHANGED <<phase, nopts, parsed, cfg, skip, l, conc, buffer>>

\* c.Next() has returned: the middleware runs to its end.
Leave(s) ==
  /\ ctx[s].pc = "handled" /\ ctx[s].mw
  /\ \E werr \in WriteErrors :
       LET r == SetLoggerLeave(ctx[s], clock, werr)
       IN  /\ ctx' = [ctx EXCEPT ![s] = r.c]
           /\ buffer' = buffer \o r.out
  /\ UNCHANGED <<phase, nopts, parsed, cfg, skip, l, conc, clock>>

\* The request is over: its context goes back to the pool, reset, and what it
\* logged is read from the buffer.  Time is counted anew once the server is idle.
Finish(s) ==
  /\ ctx[s].pc \in {"done", "panicked"}
  /\ ctx' = [ctx EXCEPT ![s] = [NewContext EXCEPT !.slot = s]]
  /\ buffer' = SelectSeq(buffer, LAMBDA e : e.by # s)
  /\ clock' = IF Busy = {s} THEN 1 ELSE clock
  /\ UNCHANGED <<phase, nopts, parsed, cfg, skip, l, conc>>

Next ==
  \/ CallParseLevel
  \/ OptDefaultLevel
  \/ OptLogger
  \/ OptSkipPathRegexps
  \/ OptUTC
  \/ OptSkipPath
  \/ OptPathLevel
  \/ OptWriter
  \/ OptClientErrorLevel
  \/ OptServerErrorLevel
  \/ OptSkipper
  \/ OptContext
  \/ OptMessage
  \/ OptSpecificLogLevelByStatusCode
  \/ OptRequestHeader
  \/ OptHiddenRequestHeaders
  \/ Build
  \/ \E s \in Slots : Arrive(s)
  \/ \E s \in Slots : Enter(s)
  \/ \E s \in Slots : Handler(s)
  \/ \E s \in Slots : Leave(s)
  \/ \E s \in Slots : Finish(s)

Spec == Init /\ [][Next]_vars

\* ------------------------------------------------ two requests at a time
\* SetLogger's cfg after all its options were applied, for a server that
\* handles two requests at a time.
ConcConfigs ==
  { WithLogger("WithPath",
      WithPathLevel((PathA :> LevelDebug) @@ (PathB :> LevelError), defaultConfig)),
    WithSkipper("IsOptions",
      WithSpecificLogLevelByStatusCode((200 :> LevelError) @@ (400 :> LevelDebug),
        defaultConfig)) }

InitConc ==
  /\ phase = "config"
  /\ nopts = 2
  /\ parsed = NoParse
  /\ cfg \in ConcConfigs
  /\ skip = {}
  /\ l = NilLogger
  /\ conc = 2
  /\ ctx = [s \in Slots |-> [NewContext EXCEPT !.slot = s]]
  /\ buffer = <<>>
  /\ clock = 1

NextConc ==
  \/ Build
  \/ \E s \in Slots : Arrive(s)
  \/ \E s \in Slots : Enter(s)
  \/ \E s \in Slots : Handler(s)
  \/ \E s \in Slots : Leave(s)
  \/ \E s \in Slots : Finish(s)

SpecConc == InitConc /\ [][NextConc]_vars

\* ============================================================== the claims
\* The places in the buffer of the records that the request in slot s emitted.
Entries(s) == {i \in 1..Len(buffer) : buffer[i].by = s}

Served == {s \in Slots : ctx[s].pc # "idle" /\ ctx[s].mw}

\* The logger the middleware owes the request in slot s.
RequestLogger(s) ==
  CASE cfg.logger = "nil" -> l
    [] cfg.logger = "WithPath" -> LoggerWith(l, "path", ctx[s].path)
    [] cfg.logger = "ReturnsNil" -> NilLogger

\* C1: a logged request whose final status is a key of specificLevelByStatusCode
\* is logged at exactly the mapped level, whatever the status band and whether
\* or not its path is a key of pathLevels.
C1_SpecificStatusLevel ==
  \A s \in Served : \A i \in Entries(s) :
    ctx[s].status \in DOMAIN cfg.specificLevelByStatusCode
      => buffer[i].rec.level = cfg.specificLevelByStatusCode[ctx[s].status]

\* A record of a 200 whose path has a path level of its own, at the level mapped
\* to 200 and not at the path's.
C1_Witness ==
  \E s \in Served : \E i \in Entries(s) :
    /\ ctx[s].status \in DOMAIN cfg.specificLevelByStatusCode
    /\ ctx[s].status < 400
    /\ ctx[s].fullPath \in DOMAIN cfg.pathLevels
    /\ cfg.pathLevels[ctx[s].fullPath] # cfg.specificLevelByStatusCode[ctx[s].status]
    /\ buffer[i].rec.level = cfg.specificLevelByStatusCode[ctx[s].status]

\* C2: a logged request whose status is no key of specificLevelByStatusCode is
\* logged at clientErrorLevel when the status is in 400..499 and at
\* serverErrorLevel when it is 500 or more, also when its path is a key of
\* pathLevels.
C2_StatusBands ==
  \A s \in Served : \A i \in Entries(s) :
    ctx[s].status \notin DOMAIN cfg.specificLevelByStatusCode
      => /\ (ctx[s].status >= 400 /\ ctx[s].status <= 499)
              => buffer[i].rec.level = cfg.clientErrorLevel
         /\ ctx[s].status >= 500
              => buffer[i].rec.level = cfg.serverErrorLevel

\* A record of a 5xx on a path with a path level of its own, at serverErrorLevel.
C2_Witness ==
  \E s \in Served : \E i \in Entries(s) :
    /\ ctx[s].status \notin DOMAIN cfg.specificLevelByStatusCode
    /\ ctx[s].status >= 500
    /\ ctx[s].fullPath \in DOMAIN cfg.pathLevels
    /\ cfg.pathLevels[ctx[s].fullPath] # cfg.serverErrorLevel
    /\ buffer[i].rec.level = cfg.serverErrorLevel

\* C3: a logged request with a status below 400 and no specific-code override,
\* with or without a query string, is logged at pathLevels[p] when its URL path
\* p is a key of pathLevels, and at defaultLevel otherwise.
C3_PathLevelOfURLPath ==
  \A s \in Served : \A i \in Entries(s) :
    (ctx[s].status < 400 /\ ctx[s].status \notin DOMAIN cfg.specificLevelByStatusCode)
      => buffer[i].rec.level =
           IF ctx[s].path \in DOMAIN cfg.pathLevels
           THEN cfg.pathLevels[ctx[s].path]
           ELSE cfg.defaultLevel

\* C4: no record is emitted for a request whose path with its query string
\* appended is an entry of skipPaths, or whose path matches a skipPathPatterns
\* entry (with or without a query string), or for which the skip predicate
\* returns true.
C4_SkippedNeverLogged ==
  \A s \in Served :
    ( \/ FullPath(ctx[s]) \in {cfg.skipPath[i] : i \in 1..Len(cfg.skipPath)}
      \/ \E i \in 1..Len(cfg.skipPathRegexps) :
           MatchString(cfg.skipPathRegexps[i], ctx[s].path)
      \/ cfg.skip = "IsOptions" /\ ctx[s].method = "OPTIONS" )
      => Cardinality(Entries(s)) = 0

\* C5: a request passing through the middleware emits at most one record:
\* exactly one once the chain has returned and the middleware has run to its
\* end, when the middleware decided to log it, whatever the record's level is
\* relative to the base handler's minimum level, and none when it decided to
\* skip it.
C5_ZeroOrOneRecord ==
  \A s \in Served :
    /\ Cardinality(Entries(s)) <= 1
    /\ ctx[s].pc = "done" => Cardinality(Entries(s)) = IF ctx[s].track THEN 1 ELSE 0

\* A record below the base handler's minimum level has been emitted.
C5_Witness ==
  \E s \in Served :
    /\ ctx[s].pc = "done" /\ ctx[s].track
    /\ Cardinality(Entries(s)) = 1
    /\ \A i \in Entries(s) : buffer[i].rec.level < l.min

\* C6: in one request the start time is captured, then the handler chain runs,
\* then the record is emitted: there is no record before the chain has
\* returned, and the record carries the status and the body size the chain left.
C6_StartThenChainThenRecord ==
  \A s \in Served :
    /\ ctx[s].pc \in {"arrived", "next", "handled", "panicked"} => Cardinality(Entries(s)) = 0
    /\ ctx[s].pc \in {"next", "handled", "done"} => ctx[s].start >= 1
    /\ ctx[s].pc \in {"handled", "done"} => ctx[s].start <= ctx[s].ranAt
    /\ \A i \in Entries(s) :
         /\ buffer[i].rec.time.t > ctx[s].ranAt
         /\ buffer[i].rec.attrs.status = ctx[s].status
         /\ buffer[i].rec.attrs.body_size = ctx[s].size

\* A record of a response the chain wrote (not the writer's initial state),
\* emitted after the chain ran.
C6_Witness ==
  \E s \in Served : \E i \in Entries(s) :
    /\ ctx[s].pc = "done"
    /\ ctx[s].status = 500 /\ ctx[s].size = 2
    /\ buffer[i].rec.attrs.status = 500
    /\ buffer[i].rec.attrs.body_size = 2
    /\ ctx[s].start <= ctx[s].ranAt
    /\ ctx[s].ranAt < buffer[i].rec.time.t

\* C7: from before the chain starts, the request's context holds under the
\* logger key the base logger, or with a logger transform exactly its result,
\* for skipped requests too; Get(c) in the downstream handler returns it, and
\* it is the logger whose handler emits the request's record.
C7_LoggerStoredBeforeChain ==
  \A s \in Served :
    (ctx[s].pc \in {"next", "handled", "done"} \/ ctx[s].ranAt > 0)
      => /\ loggerKey \in DOMAIN ctx[s].keys
         /\ ctx[s].keys[loggerKey] = RequestLogger(s)
         /\ ctx[s].got.called
              => ~ctx[s].got.panic /\ ctx[s].got.logger = RequestLogger(s)
         /\ \A i \in Entries(s) :
              /\ buffer[i].w = RequestLogger(s).w
              /\ buffer[i].attrs = RequestLogger(s).attrs

\* The handler of a skipped request got the transform's logger from Get(c).
C7_Witness ==
  \E s \in Served :
    /\ ctx[s].pc = "done" /\ ~ctx[s].track
    /\ cfg.logger # "nil"
    /\ ctx[s].got.called /\ ~ctx[s].got.panic
    /\ ctx[s].got.logger = LoggerWith(l, "path", ctx[s].path)
    /\ ctx[s].got.logger # l

\* C8: Get(c) on a context in which the middleware stored no logger panics: it
\* returns nothing, neither nil nor a logger of another request.
C8_GetWithoutLoggerPanics ==
  \A s \in Slots :
    (ctx[s].got.called /\ loggerKey \notin DOMAIN ctx[s].keys)
      => ctx[s].got.panic /\ ctx[s].pc = "panicked"

\* The handler of a route outside the middleware called Get(c) and panicked.
C8_Witness ==
  \E s \in Slots :
    /\ ~ctx[s].mw
    /\ ctx[s].got.called /\ ctx[s].got.panic
    /\ ctx[s].pc = "panicked"

\* C9: ParseLevel returns (debug, nil) for "debug", (info, nil) for "info",
\* (warn, nil) for "warn" and "warning", (error, nil) for "error", and for any
\* other string a non-nil error with the level info.
C9_ParseLevelTable ==
  parsed.called =>
    /\ parsed.str = "debug" => parsed.level = -4 /\ parsed.err = <<>>
    /\ parsed.str = "info" => parsed.level = 0 /\ parsed.err = <<>>
    /\ parsed.str \in {"warn", "warning"} => parsed.level = 4 /\ parsed.err = <<>>
    /\ parsed.str = "error" => parsed.level = 8 /\ parsed.err = <<>>
    /\ parsed.str \notin {"debug", "info", "warn", "warning", "error"}
         => parsed.level = 0 /\ parsed.err # <<>>

\* ParseLevel has refused a name that differs from a known one by case only.
C9_Witness ==
  /\ parsed.called /\ parsed.str = "DEBUG"
  /\ parsed.err # <<>> /\ parsed.level = 0

C12_RecordAfterAbort ==
  \A s \in Served :
    ( /\ ctx[s].track
      /\ \/ ctx[s].pc = "done" /\ ctx[s].resp.how \in {"aborted", "cancelled"}
         \/ ctx[s].pc = "panicked" /\ ctx[s].panic = "handler" )
      => Cardinality(Entries(s)) = 1

\* The request as the middleware saw it before c.Next(): nothing written yet.
AsArrived(c) ==
  [c EXCEPT !.status = NoWritten.status, !.size = NoWritten.size, !.errors = <<>>]

\* C13: the skip decision is taken after the chain has returned: a request
\* that ran to the middleware's end has no record exactly when the exact
\* lookup, the patterns or the skip predicate, asked about the request as the
\* chain left it, say skip.
C13_SkipDecidedAfterChain ==
  \A s \in Served :
    ctx[s].pc = "done"
      => ( Cardinality(Entries(s)) = 0
             <=> \/ ctx[s].fullPath \in skip
                 \/ CallSkipper(cfg.skip, ctx[s])
                 \/ \E i \in 1..Len(cfg.skipPathRegexps) :
                      /\ ~cfg.skipPathRegexps[i].nil
                      /\ MatchString(cfg.skipPathRegexps[i], ctx[s].fullPath) )

\* C13, amended: the skip decision is taken before the chain runs and is not
\* taken again: the skip predicate sees the request before any handler wrote
\* (status 200, no errors), and a request that ran to the middleware's end has
\* no record exactly when that earlier decision was to skip.
C13_SkipDecidedBeforeChain ==
  \A s \in Served :
    ctx[s].pc \in {"next", "handled", "done"}
      => /\ ~ctx[s].track
              <=> \/ ctx[s].fullPath \in skip
                  \/ CallSkipper(cfg.skip, AsArrived(ctx[s]))
                  \/ \E i \in 1..Len(cfg.skipPathRegexps) :
                       /\ ~cfg.skipPathRegexps[i].nil
                       /\ MatchString(cfg.skipPathRegexps[i], ctx[s].fullPath)
         /\ ctx[s].pc = "done" => (Cardinality(Entries(s)) = 0 <=> ~ctx[s].track)

\* A request answered 500 was logged although the skip predicate, asked
\* after the chain, would have said skip.
C13_Witness ==
  \E s \in Served :
    /\ ctx[s].pc = "done" /\ cfg.skip = "IsError"
    /\ ctx[s].status = 500
    /\ CallSkipper(cfg.skip, ctx[s])
    /\ ctx[s].skipperCalled /\ ctx[s].track
    /\ Cardinality(Entries(s)) = 1

\* C14: when the backend fails to write the record, nothing is raised in the
\* request (the middleware runs to its end), the status, the body size and
\* the errors are those the chain left, and the backend was called once.
C14_WriteErrorSwallowed ==
  \A s \in Served : \A i \in Entries(s) :
    buffer[i].err # "nil"
      => /\ ctx[s].pc = "done" /\ ctx[s].panic = ""
         /\ ctx[s].status = ctx[s].resp.status
         /\ ctx[s].size = ctx[s].resp.size
         /\ ctx[s].errors = ctx[s].resp.errors
         /\ Cardinality(Entries(s)) = 1

\* The write of the record of a 400 failed and the request ended as a 400.
C14_Witness ==
  \E s \in Served : \E i \in Entries(s) :
    /\ buffer[i].err = "EPIPE"
    /\ ctx[s].pc = "done"
    /\ ctx[s].resp.status = 400 /\ ctx[s].status = 400 /\ ctx[s].errors = <<>>
    /\ Cardinality(Entries(s)) = 1

\* C15: no option value makes request handling fail: with a nil entry among
\* the patterns, a nil writer, or a logger or record transform that returns
\* nil, nothing panics in a request.
C15_NilOptionsTolerated ==
  \A s \in Served :
    ctx[s].panic \notin {"nil regexp", "nil writer", "nil logger", "nil record"}

\* C16: the skip predicate is consulted last: it is called for a request only
\* when the exact lookup did not find the request's path and none of the
\* patterns matches it.
C16_SkipperConsultedLast ==
  \A s \in Served :
    ctx[s].skipperCalled
      => /\ ctx[s].fullPath \notin skip
         /\ ~\E i \in 1..Len(cfg.skipPathRegexps) :
               /\ ~cfg.skipPathRegexps[i].nil
               /\ MatchString(cfg.skipPathRegexps[i], ctx[s].fullPath)

\* What each request in flight has of its own: the logger Get returned to its
\* handler, and in its record its status, method, path, latency and level and
\* the attributes of its logger.
OwnRecordAndLogger ==
  \A s \in Served :
    /\ (ctx[s].got.called /\ ~ctx[s].got.panic) => ctx[s].got.logger = RequestLogger(s)
    /\ \A i \in Entries(s) :
         /\ buffer[i].attrs = RequestLogger(s).attrs
         /\ buffer[i].rec.attrs.status = ctx[s].status
         /\ buffer[i].rec.attrs.method = ctx[s].method
         /\ buffer[i].rec.attrs.path = FullPath(ctx[s])
         /\ buffer[i].rec.attrs.latency = buffer[i].rec.time.t - ctx[s].start
         /\ buffer[i].rec.level =
              IF ctx[s].status \in DOMAIN cfg.specificLevelByStatusCode
              THEN cfg.specificLevelByStatusCode[ctx[s].status]
              ELSE IF ctx[s].status >= 500 THEN cfg.serverErrorLevel
              ELSE IF ctx[s].status >= 400 THEN cfg.clientErrorLevel
              ELSE IF FullPath(ctx[s]) \in DOMAIN cfg.pathLevels
              THEN cfg.pathLevels[FullPath(ctx[s])]
              ELSE cfg.defaultLevel

\* C17: with two requests handled at a time, in any interleaving, no step of
\* a request changes the configuration, the skip set or the base logger, each
\* record carries the status, method, path, latency and level of its own
\* request, and Get returns to a request's handler that request's logger.
C17_RequestsIsolated ==
  /\ []OwnRecordAndLogger
  /\ [][phase = "serve" => (cfg' = cfg /\ skip' = skip /\ l' = l)]_vars

\* Two requests in flight together, on different paths and answered
\* differently, each with its own record and its own logger.
C17_Witness ==
  /\ conc = 2 /\ cfg.logger = "WithPath"
  /\ \A s \in Slots : ctx[s].mw /\ ctx[s].pc = "done" /\ Cardinality(Entries(s)) = 1
  /\ ctx[1].path # ctx[2].path /\ ctx[1].status # ctx[2].status
  /\ ctx[1].got.logger # ctx[2].got.logger
  /\ ctx[1].start <= ctx[2].ranAt /\ ctx[2].start <= ctx[1].ranAt
  /\ \A s \in Slots : \A i \in Entries(s) :
       /\ buffer[i].rec.attrs.path = FullPath(ctx[s])
       /\ buffer[i].rec.attrs.status = ctx[s].status

=============================================================================
